---------------------------- MODULE Spec2Model ----------------------------
(***************************************************************************)
(* A model of cmakerer (src/cmakerer/__init__.py): main() walks each       *)
(* search root, extracts the #include lines of the collected source files, *)
(* resolves them to include roots and renders the sorted lists.            *)
(*                                                                         *)
(* Byte strings are sequences of one-character strings, so that the        *)
(* code's endswith / find / slicing are computed as the code computes      *)
(* them.  The file system is the tree below the directory the searches     *)
(* start from (the base directory when one is given, else the launch       *)
(* directory); directories exist exactly when a file lies beneath them.    *)
(***************************************************************************)
EXTENDS Integers, Sequences, FiniteSets

VARIABLES
  args,             \* the parsed command line (parse_args), fixed after Init
  fs,               \* the source tree: a set of files
  pc,               \* position of main()
  cwd,              \* the process working directory, a sequence of names
  root_i,           \* index of the search root of the loop of main()
  stack,            \* directories os.walk has still to yield, next first
  srcfilelst,       \* search(): collected source files, in walk order
  includelst,       \* search(): header directories, then quoted roots too
  systemlst,        \* search(): system roots
  scan_i,           \* index of the next file of the extraction loop
  full_srcfilelst,  \* main(): merged source files
  full_includelst,  \* main(): merged quoted roots
  full_systemlst,   \* main(): merged system roots
  headerdirs,       \* history: includelst as the walk of search() left it
  searched,         \* history: what each finished search() returned
  stderr,           \* paths reported to standard error
  output            \* what generate_output renders

vars == <<args, fs, pc, cwd, root_i, stack, srcfilelst, includelst, systemlst,
          scan_i, full_srcfilelst, full_includelst, full_systemlst, headerdirs,
          searched, stderr, output>>

---------------------------------------------------------------------------
(* Byte strings.                                                           *)

\* The bytes the model uses, in ascending byte value.
Bytes == <<"\t", " ", "\"", "#", "-", ".", "/", "<", ">", "A", "C", "F", "M",
           "_", "a", "b", "c", "d", "e", "f", "g", "h", "i", "k", "l", "m",
           "n", "p", "r", "s", "t", "u", "v", "x", "y">>

Ord(c) == CHOOSE i \in 1..Len(Bytes) : Bytes[i] = c

\* string.whitespace, restricted to Bytes
Whitespace == {"\t", " "}

Slash == <<"/">>
Dot == <<".">>

Take(s, n) == SubSeq(s, 1, n)
Drop(s, n) == SubSeq(s, n + 1, Len(s))

StartsWith(s, p) == Len(p) <= Len(s) /\ Take(s, Len(p)) = p
EndsWith(s, p) == Len(p) <= Len(s) /\ Drop(s, Len(s) - Len(p)) = p

\* bytes.find: the 0-based index of the first occurrence, or -1
Find(s, m) ==
  LET hits == {i \in 0..(Len(s) - Len(m)) : SubSeq(s, i + 1, i + Len(m)) = m}
  IN IF hits = {} THEN -1 ELSE CHOOSE i \in hits : \A j \in hits : i <= j

\* m in s
Contains(s, m) == Find(s, m) # -1

\* bytes.rfind: the 0-based index of the last occurrence, or -1
RFind(s, m) ==
  LET hits == {i \in 0..(Len(s) - Len(m)) : SubSeq(s, i + 1, i + Len(m)) = m}
  IN IF hits = {} THEN -1 ELSE CHOOSE i \in hits : \A j \in hits : j <= i

\* bytes.translate(tab, delete=whitespace)
DeleteWhitespace(s) == SelectSeq(s, LAMBDA c : c \notin Whitespace)

RECURSIVE LStrip(_)
LStrip(s) == IF s # <<>> /\ s[1] \in Whitespace THEN LStrip(Tail(s)) ELSE s

RECURSIVE RStrip(_)
RStrip(s) ==
  IF s # <<>> /\ s[Len(s)] \in Whitespace THEN RStrip(Take(s, Len(s) - 1)) ELSE s

Strip(s) == RStrip(LStrip(s))

\* bytes.lower, restricted to the upper-case bytes the model uses
LowerByte(c) ==
  CASE c = "A" -> "a"
    [] c = "C" -> "c"
    [] c = "F" -> "f"
    [] c = "M" -> "m"
    [] OTHER -> c
Lower(s) == [i \in 1..Len(s) |-> LowerByte(s[i])]

\* sep.join(parts)
RECURSIVE Join(_, _)
Join(parts, sep) ==
  IF parts = <<>> THEN <<>>
  ELSE IF Len(parts) = 1 THEN parts[1]
  ELSE parts[1] \o sep \o Join(Tail(parts), sep)

\* s.split(sep) for a one-byte separator
RECURSIVE Split(_, _)
Split(s, c) ==
  LET i == Find(s, <<c>>)
  IN IF i = -1 THEN <<s>>
     ELSE <<Take(s, i)>> \o Split(Drop(s, i + 1), c)

\* lexicographic order by byte value, as sort() of a list of bytes uses
RECURSIVE BytesLess(_, _)
BytesLess(s, t) ==
  IF t = <<>> THEN FALSE
  ELSE IF s = <<>> THEN TRUE
  ELSE IF s[1] # t[1] THEN Ord(s[1]) < Ord(t[1])
  ELSE BytesLess(Tail(s), Tail(t))

RECURSIVE Insert(_, _)
Insert(x, sorted) ==
  IF sorted = <<>> THEN <<x>>
  ELSE IF BytesLess(sorted[1], x) THEN <<sorted[1]>> \o Insert(x, Tail(sorted))
  ELSE <<x>> \o sorted

RECURSIVE SortList(_)
SortList(lst) == IF lst = <<>> THEN <<>> ELSE Insert(lst[1], SortList(Tail(lst)))

RECURSIVE SetToList(_)
SetToList(S) ==
  IF S = {} THEN <<>>
  ELSE LET x == CHOOSE y \in S : TRUE IN <<x>> \o SetToList(S \ {x})

Range(s) == {s[i] : i \in 1..Len(s)}

\* every ordering of a finite set, as sequences
Orderings(S) ==
  {s \in [1..Cardinality(S) -> S] : \A i, j \in 1..Cardinality(S) : s[i] = s[j] => i = j}

---------------------------------------------------------------------------
(* The inputs: a source tree and a command line.                           *)

\* the most files a source tree of the model holds
MaxFiles == 4

NameA == <<"a">>
NameB == <<"b">>
NameInc == <<"i", "n", "c">>
NameSrc == <<"s", "r", "c">>
NameVx == <<"v", "x">>
NameHidden == <<".", "g">>
NameCmake == <<"C", "m", "a", "k", "e">>
NameP == <<"p">>

FileRh == <<"r", ".", "h">>
FileXh == <<"x", ".", "h">>
FileFc == <<"f", ".", "c">>
FileMc == <<"m", ".", "c">>
FileV == <<"v">>

Include == <<"i", "n", "c", "l", "u", "d", "e">>
IncXh == NameInc \o Slash \o FileXh
DXh == <<"d">> \o Slash \o FileXh

QuotedLine(t) == <<"#">> \o Include \o <<" ", "\"">> \o t \o <<"\"">>
SystemLine(t) == <<"#">> \o Include \o <<" ", "<">> \o t \o <<">", " ">>
\* "#  include" with blanks after the hash, and a tab before it
SpacedQuotedLine(t) == <<"\t", "#", " ", " ">> \o Include \o <<"\"">> \o t \o <<"\"">>
IncludeNextLine(t) == <<"#">> \o Include \o <<"_", "n", "e", "x", "t", " ", "<">> \o t \o <<">">>
UnterminatedLine(t) == <<"#">> \o Include \o <<" ", "<">> \o t
CommentLine(t) == <<"/", "/", " ", "#">> \o Include \o <<" ", "<">> \o t \o <<">">>
PlainLine == <<"i", "n", "t", " ", "x">>

\* A file: the directory it lies in (names from the top of the tree), its
\* name and its lines (its bytes split at line feeds).
File(dir, name, lines) == [dir |-> dir, name |-> name, lines |-> lines]

FileUniverse ==
  { File(<<>>, FileRh, <<PlainLine>>),
    File(<<NameA>>, FileFc, <<SystemLine(FileXh), IncludeNextLine(IncXh)>>),
    File(<<NameA, NameInc>>, FileXh, <<CommentLine(IncXh)>>),
    File(<<NameInc>>, FileXh, <<UnterminatedLine(IncXh)>>),
    File(<<NameSrc>>, FileMc,
         <<SystemLine(IncXh), SpacedQuotedLine(IncXh), QuotedLine(DXh),
           SystemLine(FileV), QuotedLine(FileXh)>>),
    File(<<NameA, NameVx>>, FileV, <<>>),
    File(<<NameB>>, FileFc, <<QuotedLine(IncXh)>>),
    File(<<NameHidden>>, FileFc, <<>>),
    File(<<NameCmake>>, FileFc, <<>>) }

Trees == {t \in SUBSET FileUniverse : Cardinality(t) <= MaxFiles}

\* A command line as argparse hands it to parse_args' normalisation: the
\* repeatable options are lists, an absent -b is the empty string.
Argv(x, xat, flt, z, plus, b, roots) ==
  [exclude |-> x, exclude_at |-> xat, filter |-> flt, filter_cmake |-> z,
   cpp_headers |-> plus, base_dir |-> b, search_roots |-> roots]

ArgvSet ==
  { Argv(<<>>, <<>>, <<>>, FALSE, FALSE, <<>>, <<Dot>>),
    Argv(<<Dot>>, <<>>, <<>>, FALSE, FALSE, <<>>, <<Dot>>),
    Argv(<<NameA \o Slash>>, <<>>, <<>>, FALSE, FALSE, <<>>, <<Dot>>),
    Argv(<<NameA \o Slash \o NameInc>>, <<>>, <<>>, FALSE, FALSE, <<>>, <<Dot>>),
    Argv(<<>>, <<Dot>>, <<>>, FALSE, FALSE, <<>>, <<Dot>>),
    Argv(<<>>, <<NameA \o Slash>>, <<>>, FALSE, FALSE, <<>>, <<Dot>>),
    Argv(<<>>, <<>>, <<<<"A">>>>, FALSE, FALSE, <<>>, <<Dot>>),
    Argv(<<>>, <<>>, <<>>, TRUE, FALSE, <<>>, <<Dot>>),
    Argv(<<>>, <<>>, <<>>, FALSE, TRUE, <<>>, <<Dot>>),
    Argv(<<>>, <<>>, <<>>, FALSE, FALSE, <<>>, <<NameA \o Slash \o NameInc \o Slash>>),
    Argv(<<>>, <<>>, <<>>, FALSE, FALSE, NameP \o Slash, <<NameA, NameB>>),
    Argv(<<>>, <<>>, <<>>, FALSE, FALSE, <<"x">> \o Slash \o NameP, <<Dot, NameA \o Slash>>),
    Argv(<<>>, <<>>, <<>>, FALSE, FALSE, NameP, <<NameA, NameInc>>) }

---------------------------------------------------------------------------
(* parse_args and the generate_* helpers of main().                        *)

\* sr[:-1] if sr.endswith('/') or sr.endswith('\\') else sr
StripOneSep(p) ==
  IF EndsWith(p, Slash) \/ EndsWith(p, <<"\\">>) THEN Take(p, Len(p) - 1) ELSE p

parse_args(argv) ==
  [argv EXCEPT
     !.search_roots = [i \in 1..Len(argv.search_roots) |-> StripOneSep(argv.search_roots[i])],
     !.base_dir = IF argv.base_dir # <<>> THEN StripOneSep(argv.base_dir) ELSE argv.base_dir]

\* a list of paths with empty ones dropped and one trailing separator cut
RECURSIVE StripList(_)
StripList(lst) ==
  IF lst = <<>> THEN <<>>
  ELSE LET e == lst[1]
       IN IF Len(e) < 1 THEN StripList(Tail(lst))
          ELSE IF e[Len(e)] = "/" THEN <<Take(e, Len(e) - 1)>> \o StripList(Tail(lst))
          ELSE <<e>> \o StripList(Tail(lst))

generate_excludelst(a) == StripList(a.exclude)

generate_excludeatlst(a) == Range(StripList(a.exclude_at))

CmakeSegments ==
  { <<"C", "M", "a", "k", "e", "F", "i", "l", "e", "s">>,
    <<"c", "m", "a", "k", "e">>,
    <<"c", "m", "a", "k", "e", "-", "b", "u", "i", "l", "d", "-", "d", "e", "b", "u", "g">> }

generate_filterlst(a) ==
  Range(a.filter) \cup (IF a.filter_cmake THEN CmakeSegments ELSE {})

\* None as a member of an extension set
NoneExt == <<"None">>

generate_header_exts(a) ==
  {<<"h">>, <<"h", "p", "p">>, <<"h", "h">>}
    \cup (IF a.cpp_headers THEN {NoneExt} ELSE {})

generate_code_exts(a, header_exts) ==
  {<<"c">>, <<"c", "c">>, <<"c", "p", "p">>} \cup header_exts

excludelst == generate_excludelst(args)
excludeatlst == generate_excludeatlst(args)
filterlst == generate_filterlst(args)
header_exts == generate_header_exts(args)
code_exts == generate_code_exts(args, header_exts)

is_excluded(dirpath, exlst) ==
  \E ex \in exlst : dirpath = ex \/ StartsWith(dirpath, ex \o Slash)

is_filtered(dirname, flst) ==
  \/ StartsWith(dirname, Dot) /\ dirname # Dot
  \/ \E f \in flst : Lower(dirname) = Lower(f)

has_ext(filename, exts) ==
  LET parts == Split(filename, ".")
  IN IF Len(parts) = 1 /\ NoneExt \in exts THEN TRUE
     ELSE parts[Len(parts)] \in exts

\* os.path.dirname
dirname(p) ==
  LET i == RFind(p, Slash) + 1
      head == Take(p, i)
  IN IF head # <<>> /\ \E k \in 1..Len(head) : head[k] # "/"
     THEN LET RECURSIVE CutSlashes(_)
              CutSlashes(h) ==
                IF h # <<>> /\ h[Len(h)] = "/" THEN CutSlashes(Take(h, Len(h) - 1)) ELSE h
          IN CutSlashes(head)
     ELSE head

---------------------------------------------------------------------------
(* search(): the walk.                                                     *)

IsPrefix(p, q) == Len(p) <= Len(q) /\ SubSeq(q, 1, Len(p)) = p

\* what os.walk lists in directory d of the tree
SubdirNames(d) == {f.dir[Len(d) + 1] : f \in {g \in fs : Len(g.dir) > Len(d) /\ IsPrefix(d, g.dir)}}
FileNames(d) == {f.name : f \in {g \in fs : g.dir = d}}
DirExists(d) == d = <<>> \/ \E f \in fs : IsPrefix(d, f.dir)

\* the root os.walk('.') yields for the directory rel below the start
WalkRoot(rel) == IF rel = <<>> THEN Dot ELSE <<".", "/">> \o Join(rel, Slash)

\* the directories the walk keeps of those listed in root
KeptDirs(root, dirs) ==
  IF is_excluded(root, Range(excludelst)) THEN {}
  ELSE LET prefix == IF root = Dot THEN <<>> ELSE Drop(root, 2) \o Slash
       IN {d \in dirs : ~(is_filtered(d, filterlst)
                           \/ is_excluded(prefix \o d, Range(excludelst)))}

\* the directory a file's exclude-at test looks at
ExcludeAtDir(root, f) ==
  dirname(IF root = Dot THEN <<".", "/">> \o f ELSE Drop(root, 2) \o Slash \o f)

\* whether the exclude-at list drops a file
SkippedAt(root, f) == is_excluded(ExcludeAtDir(root, f), excludeatlst)

\* one pass of the loop over the files of root; acc = [src, inc]
WalkFile(root, f, acc) ==
  IF ~has_ext(f, code_exts) \/ SkippedAt(root, f) THEN acc
  ELSE [src |-> Append(acc.src, IF root = Dot THEN f ELSE Drop(root, 2) \o Slash \o f),
        inc |-> IF has_ext(f, header_exts)
                THEN acc.inc \cup {IF root = Dot THEN Dot ELSE Drop(root, 2)}
                ELSE acc.inc]

RECURSIVE WalkFiles(_, _, _)
WalkFiles(root, files, acc) ==
  IF files = <<>> THEN acc
  ELSE WalkFiles(root, Tail(files), WalkFile(root, files[1], acc))

---------------------------------------------------------------------------
(* search(): include extraction and resolution.                            *)

NotAnInclude == [kind |-> "none", inc |-> <<>>]

\* the include a line holds
ExtractInclude(line) ==
  IF ~Contains(line, Include) THEN NotAnInclude
  ELSE IF ~StartsWith(DeleteWhitespace(line), <<"#">> \o Include) THEN NotAnInclude
  ELSE LET rem == Strip(Drop(line, Find(line, Include) + Len(Include)))
       IN IF Len(rem) = 0 THEN NotAnInclude
          ELSE IF rem[1] \notin {"\"", "<"} THEN NotAnInclude
          ELSE LET quote == rem[1] = "\""
                   rest == Tail(rem)
                   pos == Find(rest, IF quote THEN <<"\"">> ELSE <<">">>)
               IN IF pos = -1 THEN NotAnInclude
                  ELSE [kind |-> IF quote THEN "quote" ELSE "system",
                        inc |-> Take(rest, pos)]

\* the root a bare system include takes from a source file ending in m
BareRoot(s, m) == Take(s, Find(s, m))

\* the system roots of a bare include <inc>
BareSystemRoots(inc, src) ==
  {BareRoot(s, Slash \o inc) : s \in {t \in Range(src) : EndsWith(t, Slash \o inc)}}

\* '/'.join(inc.split('/')[:-1])
IncPath(inc) ==
  LET parts == Split(inc, "/") IN Join(Take(parts, Len(parts) - 1), Slash)

\* whether a path of the lookup list matches the directory part of an include
PathMatches(path, incpath) == EndsWith(path, Slash \o incpath)

\* PathRoots cutting only len(incpath) bytes, so that the slash stays
PathRootsKeepSlash(incpath, lst) ==
  {Take(path, Len(path) - Len(incpath)) : path \in {q \in lst : PathMatches(q, incpath)}}

\* the roots a path-shaped include adds, given the list it is looked up in
PathRoots(incpath, lst) ==
  {Take(path, Len(path) - Len(Slash \o incpath)) : path \in {q \in lst : PathMatches(q, incpath)}}

\* the list a path-shaped system include is looked up in
SystemLookup(src, st) == st.sys

\* ResolveInclude with the lookup list replaced by the new roots, not extended
ResolveIncludeReplace(i, src, st) ==
  IF i.kind = "none" THEN st
  ELSE IF ~Contains(i.inc, Slash)
  THEN IF i.kind = "system"
       THEN [st EXCEPT !.sys = @ \cup BareSystemRoots(i.inc, src)]
       ELSE st
  ELSE IF i.kind = "quote"
  THEN [st EXCEPT !.inc = PathRoots(IncPath(i.inc), st.inc)]
  ELSE [st EXCEPT !.sys = PathRoots(IncPath(i.inc), SystemLookup(src, st))]

\* one include resolved; st = [inc, sys]
ResolveInclude(i, src, st) ==
  IF i.kind = "none" THEN st
  ELSE IF ~Contains(i.inc, Slash)
  THEN IF i.kind = "system"
       THEN [st EXCEPT !.sys = @ \cup BareSystemRoots(i.inc, src)]
       ELSE st
  ELSE IF i.kind = "quote"
  THEN [st EXCEPT !.inc = @ \cup PathRoots(IncPath(i.inc), st.inc)]
  ELSE [st EXCEPT !.sys = @ \cup PathRoots(IncPath(i.inc), SystemLookup(src, st))]

RECURSIVE ScanLines(_, _, _)
ScanLines(lines, src, st) ==
  IF lines = <<>> THEN st
  ELSE ScanLines(Tail(lines), src, ResolveInclude(ExtractInclude(lines[1]), src, st))

\* the file open(srcfile) reads in working directory dir
OpenFile(dir, srcfile) ==
  LET parts == Split(srcfile, "/")
  IN CHOOSE f \in fs : f.dir = dir \o Take(parts, Len(parts) - 1) /\ f.name = parts[Len(parts)]

\* the whole extraction loop over the files order, read in directory dir
RECURSIVE ScanFiles(_, _, _, _)
ScanFiles(order, dir, src, st) ==
  IF order = <<>> THEN st
  ELSE ScanFiles(Tail(order), dir, src, ScanLines(OpenFile(dir, order[1]).lines, src, st))

---------------------------------------------------------------------------
(* main() and generate_output().                                           *)

\* the directory os.chdir(path) enters from directory dir
ChdirTarget(dir, path) ==
  dir \o SelectSeq(Split(path, "/"), LAMBDA seg : seg # <<>> /\ seg # Dot)

\* the directory main() returns to after a search: nwd if nwd else cwd, both
\* the top of the modelled tree
ReturnDir(dir) == <<>>

\* MergePrefix without the special case of the search root '.'
MergePrefixAlways(search_root) ==
  IF args.base_dir # <<>> THEN search_root \o Slash ELSE <<>>

\* the prefix main() puts before what search() returned for search_root
MergePrefix(search_root) ==
  IF args.base_dir # <<>> /\ search_root # Dot THEN search_root \o Slash ELSE <<>>

Quote(b) == <<"\"">> \o b \o <<"\"">>

\* proj_path.split('/')[-1].split('\\')[-1]
LastSegment(path) ==
  LET a == Split(path, "/")
      b == Split(a[Len(a)], "\\")
  IN b[Len(b)]

ProjectName == Quote(LastSegment(IF args.base_dir # <<>> THEN args.base_dir
                                 ELSE args.search_roots[1]))

QuoteAll(lst) == [i \in 1..Len(lst) |-> Quote(lst[i])]

\* the merged lists full after what search() returned for search_root, res,
\* is added; full and res are [src, inc, sys]
Merge(full, search_root, res) ==
  LET prefix == MergePrefix(search_root)
  IN [src |-> full.src \o [i \in 1..Len(res.src) |-> prefix \o res.src[i]],
      inc |-> full.inc \cup {prefix \o i : i \in res.inc},
      sys |-> full.sys \cup {prefix \o x : x \in res.sys}]

\* what generate_output renders of the merged lists
Render(full) ==
  [project_name |-> ProjectName,
   system_includes |-> SortList(QuoteAll(SetToList(full.sys))),
   includes |-> SortList(QuoteAll(SetToList(full.inc))),
   src_files |-> SortList(QuoteAll(full.src))]

Init ==
  /\ fs \in Trees
  /\ \E argv \in ArgvSet : args = parse_args(argv)
  /\ pc = "start"
  /\ cwd = <<>>
  /\ root_i = 1
  /\ stack = <<>>
  /\ srcfilelst = <<>>
  /\ includelst = {}
  /\ systemlst = {}
  /\ scan_i = 1
  /\ full_srcfilelst = <<>>
  /\ full_includelst = {}
  /\ full_systemlst = {}
  /\ headerdirs = {}
  /\ searched = <<>>
  /\ stderr = <<>>
  /\ output = <<>>

\* main() up to the loop over the search roots: os.chdir(args.base_dir)
\* succeeds or fails
Start ==
  /\ pc = "start"
  /\ \E ok \in BOOLEAN :
       IF args.base_dir # <<>> /\ ~ok
       THEN /\ pc' = "exit1"
            /\ stderr' = Append(stderr, args.base_dir)
       ELSE /\ pc' = "chdir"
            /\ stderr' = stderr
  /\ UNCHANGED <<args, fs, cwd, root_i, stack, srcfilelst, includelst, systemlst,
                 scan_i, full_srcfilelst, full_includelst, full_systemlst,
                 headerdirs, searched, output>>

\* os.chdir(search_root), then the first lines of search()
EnterRoot ==
  /\ pc = "chdir"
  /\ LET search_root == args.search_roots[root_i]
         target == ChdirTarget(cwd, search_root)
     IN IF DirExists(target)
        THEN /\ cwd' = target
             /\ pc' = "walk"
             /\ stack' = << <<>> >>
             /\ srcfilelst' = <<>>
             /\ includelst' = {}
             /\ systemlst' = {}
             /\ headerdirs' = {}
             /\ scan_i' = 1
             /\ stderr' = stderr
        ELSE /\ pc' = "exit1"
             /\ stderr' = Append(stderr, search_root)
             /\ UNCHANGED <<cwd, stack, srcfilelst, includelst, systemlst,
                            headerdirs, scan_i>>
  /\ UNCHANGED <<args, fs, root_i, full_srcfilelst, full_includelst,
                 full_systemlst, searched, output>>

\* one pass of the os.walk loop: the next directory, its subdirectories and
\* files listed in whatever order the file system gives them
WalkDir ==
  /\ pc = "walk"
  /\ stack # <<>>
  /\ LET rel == Head(stack)
         root == WalkRoot(rel)
         kept == KeptDirs(root, SubdirNames(cwd \o rel))
     IN \E dorder \in Orderings(kept), forder \in Orderings(FileNames(cwd \o rel)) :
          LET acc == WalkFiles(root, forder, [src |-> srcfilelst, inc |-> includelst])
          IN /\ stack' = [i \in 1..Len(dorder) |-> Append(rel, dorder[i])] \o Tail(stack)
             /\ srcfilelst' = acc.src
             /\ includelst' = acc.inc
             /\ headerdirs' = acc.inc
  /\ pc' = IF stack' = <<>> THEN "scan" ELSE "walk"
  /\ UNCHANGED <<args, fs, cwd, root_i, systemlst, scan_i, full_srcfilelst,
                 full_includelst, full_systemlst, searched, stderr, output>>

\* one pass of the extraction loop whose open() and read() succeed
ScanFile ==
  /\ pc = "scan"
  /\ scan_i <= Len(srcfilelst)
  /\ LET st == ScanLines(OpenFile(cwd, srcfilelst[scan_i]).lines, srcfilelst,
                         [inc |-> includelst, sys |-> systemlst])
     IN /\ includelst' = st.inc
        /\ systemlst' = st.sys
  /\ scan_i' = scan_i + 1
  /\ UNCHANGED <<args, fs, pc, cwd, root_i, stack, srcfilelst, full_srcfilelst,
                 full_includelst, full_systemlst, headerdirs, searched, stderr,
                 output>>

\* one pass of the extraction loop whose open() or read() raises: the except
\* clause writes the path to standard error and raises again
ScanFileFails ==
  /\ pc = "scan"
  /\ scan_i <= Len(srcfilelst)
  /\ stderr' = Append(stderr, srcfilelst[scan_i])
  /\ pc' = "raised"
  /\ UNCHANGED <<args, fs, cwd, root_i, stack, srcfilelst, includelst, systemlst,
                 scan_i, full_srcfilelst, full_includelst, full_systemlst,
                 headerdirs, searched, output>>

\* search() returns; main() prefixes and merges, and changes directory back
MergeRoot ==
  /\ pc = "scan"
  /\ scan_i > Len(srcfilelst)
  /\ LET search_root == args.search_roots[root_i]
         merged == Merge([src |-> full_srcfilelst, inc |-> full_includelst,
                          sys |-> full_systemlst],
                         search_root,
                         [src |-> srcfilelst, inc |-> includelst, sys |-> systemlst])
     IN /\ full_srcfilelst' = merged.src
        /\ full_includelst' = merged.inc
        /\ full_systemlst' = merged.sys
        /\ searched' = Append(searched,
             [root |-> search_root, dir |-> cwd, srcfilelst |-> srcfilelst,
              headerdirs |-> headerdirs, includelst |-> includelst,
              systemlst |-> systemlst])
  /\ cwd' = ReturnDir(cwd)
  /\ IF root_i < Len(args.search_roots)
     THEN root_i' = root_i + 1 /\ pc' = "chdir"
     ELSE root_i' = root_i /\ pc' = "output"
  /\ UNCHANGED <<args, fs, stack, srcfilelst, includelst, systemlst, scan_i,
                 headerdirs, stderr, output>>

\* generate_output: the three lists quoted and sorted, and the project name
GenerateOutput ==
  /\ pc = "output"
  /\ output' = <<Render([src |-> full_srcfilelst, inc |-> full_includelst,
                         sys |-> full_systemlst])>>
  /\ pc' = "done"
  /\ UNCHANGED <<args, fs, cwd, root_i, stack, srcfilelst, includelst, systemlst,
                 scan_i, full_srcfilelst, full_includelst, full_systemlst,
                 headerdirs, searched, stderr>>

Next ==
  \/ Start
  \/ EnterRoot
  \/ WalkDir
  \/ ScanFile
  \/ ScanFileFails
  \/ MergeRoot
  \/ GenerateOutput

Spec == Init /\ [][Next]_vars

---------------------------------------------------------------------------
(* The properties.  They are stated over what each search() returned       *)
(* (searched), the merged lists and the rendered output.                   *)

Searches == {searched[k] : k \in 1..Len(searched)}

\* the includes extracted from the files a search collected
Includes(r) ==
  UNION {{ExtractInclude(OpenFile(r.dir, sf).lines[n]) :
            n \in 1..Len(OpenFile(r.dir, sf).lines)} : sf \in Range(r.srcfilelst)}

PathShaped(i) == i.kind # "none" /\ \E n \in 1..Len(i.inc) : i.inc[n] = "/"
Bare(i) == i.kind # "none" /\ \A n \in 1..Len(i.inc) : i.inc[n] # "/"

\* the target up to its final '/'
DirPart(t) == Take(t, RFind(t, Slash))

\* the directory a collected source file lies in, '.' for the search root
ContainingDir(sf) == IF RFind(sf, Slash) = -1 THEN Dot ELSE Take(sf, RFind(sf, Slash))

\* the directories that hold at least one collected source file
SourceDirs(r) == {ContainingDir(sf) : sf \in Range(r.srcfilelst)}

\* searched with the files of search k scanned again in another order
Rescanned(k, order) ==
  LET r == searched[k]
      st == ScanFiles(order, r.dir, order, [inc |-> r.headerdirs, sys |-> {}])
  IN [searched EXCEPT ![k] = [r EXCEPT !.srcfilelst = order, !.includelst = st.inc,
                                       !.systemlst = st.sys]]

RECURSIVE MergeAll(_)
MergeAll(results) ==
  IF results = <<>> THEN [src |-> <<>>, inc |-> {}, sys |-> {}]
  ELSE LET r == results[Len(results)]
       IN Merge(MergeAll(Take(results, Len(results) - 1)), r.root,
                [src |-> r.srcfilelst, inc |-> r.includelst, sys |-> r.systemlst])

\* C1: for a fixed tree and configuration the rendered lists are the same
\* for every order in which the files a search collected are scanned.
C1_OutputIndependentOfOrder ==
  pc = "done" =>
    \A k \in 1..Len(searched) :
      \A order \in Orderings(Range(searched[k].srcfilelst)) :
        Render(MergeAll(Rescanned(k, order))) = output[1]

\* C2: every root R added to the system roots for a bare include <target>
\* satisfies: R + "/" + target is a collected source file.
C2_BareRootIsWholePrefix ==
  \A r \in Searches : \A i \in Includes(r) :
    (i.kind = "system" /\ Bare(i)) =>
      \A s \in Range(r.srcfilelst) :
        EndsWith(s, Slash \o i.inc) =>
          /\ BareRoot(s, Slash \o i.inc) \in r.systemlst
          /\ BareRoot(s, Slash \o i.inc) \o Slash \o i.inc \in Range(r.srcfilelst)

MatchesHeaderDir(r, i) ==
  \E h \in r.headerdirs : EndsWith(h, Slash \o DirPart(i.inc))

RelDir(r, f) == Drop(f.dir, Len(r.dir))
DirString(rel) == IF rel = <<>> THEN Dot ELSE Join(rel, Slash)
RelPath(r, f) == Join(Append(RelDir(r, f), f.name), Slash)

\* a directory name the configuration filters: hidden, or a filter segment
SegmentFiltered(seg) ==
  seg[1] = "." \/ \E f \in filterlst : Lower(seg) = Lower(f)

\* the directory rel, or one above it, is a configured exclude path
UnderExclude(rel) ==
  \E n \in 0..Len(rel) : \E ex \in Range(excludelst) : DirString(Take(rel, n)) = ex

\* the directory rel lies in a subdirectory, at any depth, of exclude-at path D
BelowExcludeAt(rel, D) ==
  rel # <<>> /\ (D = Dot \/ StartsWith(DirString(rel), D \o Slash))

\* C4: an exclude-at path D removes only the direct children of D: a source
\* file in a subdirectory of D, not excluded or filtered otherwise and not a
\* direct child of another exclude-at path, is in the source list.
C4_ExcludeAtKeepsSubdirectories ==
  \A r \in Searches : \A f \in fs :
    LET rel == RelDir(r, f)
    IN ( /\ IsPrefix(r.dir, f.dir)
         /\ has_ext(f.name, code_exts)
         /\ \E D \in excludeatlst : BelowExcludeAt(rel, D)
         /\ DirString(rel) \notin excludeatlst
         /\ ~UnderExclude(rel)
         /\ \A n \in 1..Len(rel) : ~SegmentFiltered(rel[n]) )
       => RelPath(r, f) \in Range(r.srcfilelst)

\* C5: no file of the source list lies in a pruned directory: its directory
\* neither equals an exclude path nor lies beneath one, and no directory
\* name on the way to it is hidden or a filter segment.
C5_NoFileInPrunedDirectory ==
  \A r \in Searches : \A sf \in Range(r.srcfilelst) :
    LET segs == Split(sf, "/")
    IN /\ \A ex \in Range(excludelst) :
            /\ ContainingDir(sf) # ex
            /\ ~StartsWith(ContainingDir(sf), ex \o Slash)
       /\ \A n \in 1..(Len(segs) - 1) : ~SegmentFiltered(segs[n])

\* C6: a source file that cannot be opened or read is reported and skipped;
\* the run is never aborted by it.
C6_ReadFailureDoesNotAbort == pc # "raised"

\* the prefix of search root r: r + "/" as claimed, nothing for '.' as amended
ClaimedPrefix(root, amended) ==
  IF amended /\ root = Dot THEN <<>> ELSE root \o Slash

RECURSIVE ClaimedSources(_, _)
ClaimedSources(n, amended) ==
  IF n = 0 THEN <<>>
  ELSE ClaimedSources(n - 1, amended)
         \o [i \in 1..Len(searched[n].srcfilelst) |->
               ClaimedPrefix(searched[n].root, amended) \o searched[n].srcfilelst[i]]

\* the part of a path after its final '/'
AfterLastSlash(path) == Drop(path, RFind(path, Slash) + 1)

\* the directory a search root names, taken from the base directory
RootDirectory(root) == IF root = Dot THEN <<>> ELSE Split(root, "/")

MergedAsClaimed(amended) ==
  args.base_dir # <<>> =>
    /\ full_srcfilelst = ClaimedSources(Len(searched), amended)
    /\ full_includelst =
         UNION {{ClaimedPrefix(r.root, amended) \o i : i \in r.includelst} : r \in Searches}
    /\ full_systemlst =
         UNION {{ClaimedPrefix(r.root, amended) \o x : x \in r.systemlst} : r \in Searches}
    /\ \A k \in 1..Len(searched) :
         /\ searched[k].root = args.search_roots[k]
         /\ searched[k].dir = RootDirectory(args.search_roots[k])
    /\ pc = "done" =>
         /\ output[1].project_name = Quote(AfterLastSlash(args.base_dir))
         /\ output[1].src_files = SortList(QuoteAll(full_srcfilelst))

\* C7 (as claimed): with a base directory, what is found under search root r
\* is merged prefixed with r + "/", every root is searched from the base
\* directory, and the project is named after the base directory's last segment.
C7_MergedWithRootPrefix == MergedAsClaimed(FALSE)

\* C7 (amended): as claimed, except that what is found under the search root
\* '.' is merged without a prefix.
C7_MergedWithRootPrefixExceptDot == MergedAsClaimed(TRUE)

C7_Witness ==
  /\ pc = "done"
  /\ args.base_dir # <<>>
  /\ Len(searched) = 2
  /\ \A k \in 1..2 : searched[k].srcfilelst # <<>> /\ searched[k].includelst # {}
  /\ \E k \in 1..2 : searched[k].root = Dot

\* C8: a path-shaped system include is matched against the directories that
\* hold a source file: for each that ends with "/" + dirPart, what is before
\* that suffix is a system root.
C8_SystemPathMatchesSourceDirs ==
  \A r \in Searches : \A i \in Includes(r) :
    (i.kind = "system" /\ PathShaped(i)) =>
      \A d \in SourceDirs(r) :
        EndsWith(d, Slash \o DirPart(i.inc)) =>
          Take(d, Len(d) - Len(DirPart(i.inc)) - 1) \in r.systemlst

\* C9: when the directory a quoted path-shaped include matches is dirPart
\* itself, '.' is a quoted root; and the empty string is never a root.
C9_SearchRootEmittedAsDot ==
  \A r \in Searches :
    /\ <<>> \notin r.includelst \cup r.systemlst
    /\ \A i \in Includes(r) :
         (i.kind = "quote" /\ PathShaped(i) /\ DirPart(i.inc) \in r.headerdirs)
           => Dot \in r.includelst

\* whether some extracted quoted include resolves to the root h
ResolvedRoot(r, h) ==
  \E i \in Includes(r) :
    i.kind = "quote" /\ PathShaped(i) /\ h \o Slash \o DirPart(i.inc) \in r.includelst

\* C10 (as claimed): a header directory is in the rendered quoted roots only
\* if some extracted include resolves to it.
C10_HeaderDirEmittedOnlyIfResolved ==
  pc = "done" =>
    \A r \in Searches : \A h \in r.headerdirs :
      Quote(MergePrefix(r.root) \o h) \in Range(output[1].includes) => ResolvedRoot(r, h)

\* C10 (amended): every header directory the walk collected is in the
\* rendered quoted roots, whether or not an include resolves to it.
C10_HeaderDirAlwaysEmitted ==
  pc = "done" =>
    \A r \in Searches : \A h \in r.headerdirs :
      Quote(MergePrefix(r.root) \o h) \in Range(output[1].includes)

C10_Witness ==
  /\ pc = "done"
  /\ \E r \in Searches : \E h \in r.headerdirs : ~ResolvedRoot(r, h)
  /\ \E r \in Searches : \E i \in Includes(r) :
       i.kind = "quote" /\ PathShaped(i) /\ MatchesHeaderDir(r, i)

=============================================================================
